---- MODULE Spec2Model ----
(***************************************************************************)
(* Canvas -> Notion assignment sync.                                       *)
(*                                                                         *)
(* Strings are TLA+ strings; a character is a string of length one.  The   *)
(* regular expressions of the source are written out as position tests on  *)
(* the string (the patterns used are deterministic: every greedy run is    *)
(* followed by a character outside the run's class, so the maximal run is  *)
(* the only candidate the backtracking matcher can accept).                *)
(***************************************************************************)
EXTENDS Integers, Sequences, FiniteSets, TLC

(***************************************************************************)
(* Characters and character classes (ASCII part of Python's classes).      *)
(***************************************************************************)
None == "None"      \* Python's None; no course code, url or date equals it

UpperChars == "ABCDEFGHIJKLMNOPQRSTUVWXYZ"
LowerChars == "abcdefghijklmnopqrstuvwxyz"
DigitChars == "0123456789"

\* s[m-1:n] of Python (1-based, inclusive), "" when the range is empty
Slice(s, m, n) ==
    LET a == IF m < 1 THEN 1 ELSE m
        b == IF n > Len(s) THEN Len(s) ELSE n
    IN  IF a > b THEN "" ELSE SubSeq(s, a, b)

\* the character at position i, "" outside the string
Ch(s, i) == IF i >= 1 /\ i <= Len(s) THEN SubSeq(s, i, i) ELSE ""
CharsOf(s) == {Ch(s, i) : i \in 1..Len(s)}

Upper == CharsOf(UpperChars)      \* [A-Z]
Lower == CharsOf(LowerChars)      \* [a-z]
Digit == CharsOf(DigitChars)      \* \d
WS == {" ", "\t", "\n"}           \* \s
TagChars == Upper \cup Lower \cup Digit \cup {"_"}   \* [a-z_\d] with IGNORECASE
DigitUnderscore == Digit \cup {"_"}                 \* [\d_]

IndexIn(c, alphabet) == CHOOSE i \in 1..Len(alphabet) : Ch(alphabet, i) = c

\* str.lower() and str.upper(), character by character
lower_ch(c) == IF c \in Upper THEN Ch(LowerChars, IndexIn(c, UpperChars)) ELSE c
upper_ch(c) == IF c \in Lower THEN Ch(UpperChars, IndexIn(c, LowerChars)) ELSE c

RECURSIVE str_lower(_)
str_lower(s) == IF s = "" THEN "" ELSE lower_ch(Head(s)) \o str_lower(Tail(s))

RECURSIVE str_upper(_)
str_upper(s) == IF s = "" THEN "" ELSE upper_ch(Head(s)) \o str_upper(Tail(s))

\* index just past the maximal run of characters of class C that starts at i
RECURSIVE RunEnd(_, _, _)
RunEnd(s, i, C) == IF i <= Len(s) /\ Ch(s, i) \in C THEN RunEnd(s, i + 1, C) ELSE i

\* str.strip(): surrounding whitespace removed
RECURSIVE LastNonWS(_, _)
LastNonWS(s, j) == IF j >= 1 /\ Ch(s, j) \in WS THEN LastNonWS(s, j - 1) ELSE j

str_strip(s) == Slice(s, RunEnd(s, 1, WS), LastNonWS(s, Len(s)))

\* re.search: the leftmost of the positions P where the pattern matches, 0 when none
Leftmost(P) == IF P = {} THEN 0 ELSE CHOOSE p \in P : \A q \in P : p <= q

\* first index >= i holding character c, Len(s)+1 when none
RECURSIVE FindCh(_, _, _)
FindCh(s, i, c) == IF i <= Len(s) /\ Ch(s, i) # c THEN FindCh(s, i + 1, c) ELSE i

(***************************************************************************)
(* Course-code extraction.                                                 *)
(***************************************************************************)
\* \[([a-z]+)_(\d+)_[\d_]+\]  matched at position p of s
TagSubjectEnd(s, p) == RunEnd(s, p + 1, Lower)
TagNumberEnd(s, p) == RunEnd(s, TagSubjectEnd(s, p) + 1, Digit)
TagAt(s, p) ==
    LET b == TagSubjectEnd(s, p)
        d == TagNumberEnd(s, p)
        f == RunEnd(s, d + 1, DigitUnderscore)
    IN  /\ Ch(s, p) = "["
        /\ b > p + 1
        /\ Ch(s, b) = "_"
        /\ d > b + 1
        /\ Ch(s, d) = "_"
        /\ f > d + 1
        /\ Ch(s, f) = "]"

\* ([a-z]+)_(\d+)(?:_|$)  matched at position p of s
LocSubjectEnd(s, p) == RunEnd(s, p, Lower)
LocNumberEnd(s, p) == RunEnd(s, LocSubjectEnd(s, p) + 1, Digit)
LocAt(s, p) ==
    LET b == LocSubjectEnd(s, p)
        d == LocNumberEnd(s, p)
    IN  /\ b > p
        /\ Ch(s, b) = "_"
        /\ d > b + 1
        /\ \/ Ch(s, d) = "_"
           \/ d = Len(s) + 1
           \/ d = Len(s) /\ Ch(s, d) = "\n"

\* api/sync.py: extract_course_code(summary, location)
extract_course_code(summary, location) ==
    LET sl == str_lower(summary)
        p == Leftmost({n \in 1..Len(sl) : TagAt(sl, n)})
        ll == str_lower(location)
        q == Leftmost({n \in 1..Len(ll) : LocAt(ll, n)})
    IN  IF p # 0
        THEN str_upper(Slice(sl, p + 1, TagSubjectEnd(sl, p) - 1)) \o " "
                \o Slice(sl, TagSubjectEnd(sl, p) + 1, TagNumberEnd(sl, p) - 1)
        ELSE IF location # "" /\ q # 0
        THEN str_upper(Slice(ll, q, LocSubjectEnd(ll, q) - 1)) \o " "
                \o Slice(ll, LocSubjectEnd(ll, q) + 1, LocNumberEnd(ll, q) - 1)
        ELSE None

\* [A-Z]+\s*\d+[A-Z]*  starting at a: index just past it, 0 when it does not match
CodeEnd(s, a) ==
    LET b == RunEnd(s, a, Upper)
        c == RunEnd(s, b, WS)
        d == RunEnd(s, c, Digit)
    IN  IF b > a /\ d > c THEN RunEnd(s, d, Upper) ELSE 0

\* [\[\(]([A-Z]+\s*\d+[A-Z]*)[\]\)]  matched at position p
BracketCodeAt(s, p) ==
    /\ Ch(s, p) \in {"[", "("}
    /\ CodeEnd(s, p + 1) # 0
    /\ Ch(s, CodeEnd(s, p + 1)) \in {"]", ")"}

\* [A-Z]+\s+\d+  starting at a: index just past it, 0 when it does not match
SpacedCodeEnd(s, a) ==
    LET b == RunEnd(s, a, Upper)
        c == RunEnd(s, b, WS)
        d == RunEnd(s, c, Digit)
    IN  IF b > a /\ c > b /\ d > c THEN d ELSE 0

SpacedCodeAt(s, p) == SpacedCodeEnd(s, p) # 0

\* \(([A-Z]+\s+\d+[A-Z]*.*?)\)  matched at position p: the lazy .*? stops at the
\* first ")" after the first digit, and "." does not match a newline
ParenNameClose(s, p) == FindCh(s, RunEnd(s, RunEnd(s, p + 1, Upper), WS) + 1, ")")
ParenNameAt(s, p) ==
    LET c == RunEnd(s, RunEnd(s, p + 1, Upper), WS)
        j == ParenNameClose(s, p)
    IN  /\ Ch(s, p) = "("
        /\ SpacedCodeEnd(s, p + 1) # 0
        /\ j <= Len(s)
        /\ \A k \in c..(j - 1) : Ch(s, k) # "\n"

\* ^([A-Z]+\s*\d+[A-Z]*)\s*[:-]
PrefixCodeMatches(s) ==
    /\ CodeEnd(s, 1) # 0
    /\ Ch(s, RunEnd(s, CodeEnd(s, 1), WS)) \in {":", "-"}

\* canvas_to_notion_sync.py: extract_course_code(summary, location)
cli_extract_course_code(summary, location) ==
    LET first == extract_course_code(summary, location)   \* same two patterns
        p3 == Leftmost({n \in 1..Len(summary) : BracketCodeAt(summary, n)})
        p4 == Leftmost({n \in 1..Len(summary) : ParenNameAt(summary, n)})
        course_name == Slice(summary, p4 + 1, ParenNameClose(summary, p4) - 1)
        q4 == Leftmost({n \in 1..Len(course_name) : SpacedCodeAt(course_name, n)})
    IN  IF first # None THEN first
        ELSE IF p3 # 0 THEN Slice(summary, p3 + 1, CodeEnd(summary, p3 + 1) - 1)
        ELSE IF p4 # 0 /\ q4 # 0
        THEN Slice(course_name, q4, SpacedCodeEnd(course_name, q4) - 1)
        ELSE IF PrefixCodeMatches(summary) THEN Slice(summary, 1, CodeEnd(summary, 1) - 1)
        ELSE None

(***************************************************************************)
(* Title cleanup.                                                          *)
(***************************************************************************)
\* \s*\[[a-z_\d]+\]\s*$  (IGNORECASE) matched at position p
TrailingTagAt(s, p) ==
    LET a == RunEnd(s, p, WS)
        b == RunEnd(s, a + 1, TagChars)
    IN  /\ Ch(s, a) = "["
        /\ b > a + 1
        /\ Ch(s, b) = "]"
        /\ RunEnd(s, b + 1, WS) = Len(s) + 1

strip_trailing_tag(s) ==
    LET p == Leftmost({n \in 1..Len(s) : TrailingTagAt(s, n)}) IN IF p = 0 THEN s ELSE Slice(s, 1, p - 1)

\* \s*\([^)]*\d{5,}[^)]*\)\s*  matched at position p
IdParenClose(s, p) == FindCh(s, RunEnd(s, p, WS) + 1, ")")
IdParenAt(s, p) ==
    LET a == RunEnd(s, p, WS)
        b == IdParenClose(s, p)
    IN  /\ Ch(s, a) = "("
        /\ b <= Len(s)
        /\ \E i \in (a + 1)..(b - 5) : \A k \in 0..4 : Ch(s, i + k) \in Digit

\* every non-overlapping match removed, left to right
RECURSIVE strip_id_parens(_)
strip_id_parens(s) ==
    LET p == Leftmost({n \in 1..Len(s) : IdParenAt(s, n)})
        e == RunEnd(s, IdParenClose(s, p) + 1, WS)
    IN  IF p = 0 THEN s
        ELSE Slice(s, 1, p - 1) \o strip_id_parens(Slice(s, e, Len(s)))

\* ^\[([A-Z]+\s*\d+[A-Z]*)\]\s*
strip_bracket_prefix(s) ==
    LET e == CodeEnd(s, 2)
    IN  IF Ch(s, 1) = "[" /\ e # 0 /\ Ch(s, e) = "]"
        THEN Slice(s, RunEnd(s, e + 1, WS), Len(s))
        ELSE s

\* ^([A-Z]+\s*\d+[A-Z]*)\s*[:-]\s*
strip_code_prefix(s) ==
    IF PrefixCodeMatches(s)
    THEN Slice(s, RunEnd(s, RunEnd(s, CodeEnd(s, 1), WS) + 1, WS), Len(s))
    ELSE s

\* api/sync.py lines 84-88
clean_name(summary) ==
    str_strip(strip_bracket_prefix(strip_id_parens(strip_trailing_tag(summary))))

\* canvas_to_notion_sync.py lines 111-120
cli_clean_name(summary) ==
    str_strip(strip_code_prefix(strip_bracket_prefix(
        strip_id_parens(strip_trailing_tag(summary)))))

(***************************************************************************)
(* Dates.  A dtstart value is a date or a datetime (icalendar's .dt), or   *)
(* absent (kind "none").                                                   *)
(***************************************************************************)
Pad2(n) == Ch(DigitChars, (n \div 10) + 1) \o Ch(DigitChars, (n % 10) + 1)
Pad4(n) == Pad2(n \div 100) \o Pad2(n % 100)

\* date.isoformat() / datetime.isoformat()
isoformat(dt) ==
    LET day == Pad4(dt.y) \o "-" \o Pad2(dt.m) \o "-" \o Pad2(dt.d)
    IN  IF dt.kind = "datetime"
        THEN day \o "T" \o Pad2(dt.hh) \o ":" \o Pad2(dt.mm) \o ":" \o Pad2(dt.ss) \o dt.tz
        ELSE day

\* a < b on calendar dates
DateLess(a, b) ==
    \/ a.y < b.y
    \/ a.y = b.y /\ a.m < b.m
    \/ a.y = b.y /\ a.m = b.m /\ a.d < b.d

\* datetime.now(): the day of the run
Now == [kind |-> "datetime", y |-> 2026, m |-> 11, d |-> 3,
        hh |-> 9, mm |-> 30, ss |-> 0, tz |-> ""]

\* the due date handed on as it is
date_only_kept(s) == s

\* s.split('T')[0] if 'T' in s else s
date_only(s) == IF "T" \in CharsOf(s) THEN Slice(s, 1, FindCh(s, 1, "T") - 1) ELSE s

(***************************************************************************)
(* Source link: https://canvas\.illinois\.edu/[^\s<>"]+                    *)
(***************************************************************************)
CanvasPrefix == "https://canvas.illinois.edu/"
UrlStop == WS \cup {"<", ">", "\"", ""}

RECURSIVE UrlEnd(_, _)
UrlEnd(s, i) == IF Ch(s, i) \notin UrlStop THEN UrlEnd(s, i + 1) ELSE i

UrlAt(s, p) ==
    /\ Slice(s, p, p + Len(CanvasPrefix) - 1) = CanvasPrefix
    /\ Ch(s, p + Len(CanvasPrefix)) \notin UrlStop

extract_canvas_url(description) ==
    LET p == Leftmost({n \in 1..Len(description) : UrlAt(description, n)})
    IN  IF p = 0 THEN None
        ELSE Slice(description, p, UrlEnd(description, p + Len(CanvasPrefix)) - 1)

(***************************************************************************)
(* Static configuration of api/sync.py.                                    *)
(***************************************************************************)
COURSE_MAPPING ==
    [k \in {"HIST 281", "CS 124", "MATH 231", "ENG 100", "ENG 111", "TE 200",
            "PHYS 100", "CS 199", "CS 100", "CITL"} |->
        CASE k = "HIST 281" -> "25a399d357138029a22fc5319c5d711e"
          [] k = "CS 124"   -> "25a399d357138052ab2be817336f99b7"
          [] k = "MATH 231" -> "25a399d3571380a9899bfd0aa5f4d4c6"
          [] k = "ENG 100"  -> "25a399d3571380c1a736d06745eb29af"
          [] k = "ENG 111"  -> "25a399d35713808ba76df0511179d181"
          [] k = "TE 200"   -> "25a399d3571380c5bd2deff44048c237"
          [] k = "PHYS 100" -> "25a399d35713801ca04adabfb0e0e57e"
          [] k = "CS 199"   -> "263399d3571380c5bd2deff44048c237"
          [] k = "CS 100"   -> "25a399d357138026a3f0f9b3f05b5454"
          [] k = "CITL"     -> None]

(***************************************************************************)
(* The calendar feed: VEVENT components as the icalendar library hands     *)
(* them over (a missing text field reads as "").                           *)
(***************************************************************************)
NoDate == [kind |-> "none", y |-> 0, m |-> 0, d |-> 0, hh |-> 0, mm |-> 0, ss |-> 0, tz |-> ""]
DateOn(y, m, d) ==
    [kind |-> "date", y |-> y, m |-> m, d |-> d, hh |-> 0, mm |-> 0, ss |-> 0, tz |-> ""]
DateTimeOn(y, m, d, hh, mm, ss, tz) ==
    [kind |-> "datetime", y |-> y, m |-> m, d |-> d, hh |-> hh, mm |-> mm, ss |-> ss, tz |-> tz]

Event(uid, summary, location, description, dtstart) ==
    [uid |-> uid, summary |-> summary, location |-> location,
     description |-> description, dtstart |-> dtstart]

EvQuiz == Event("a", "Quiz 2 [cs_124_120258_248828]", "",
                "Due soon <a href=\"https://canvas.illinois.edu/courses/1/assignments/2\">",
                DateTimeOn(2026, 12, 1, 23, 59, 0, "+00:00"))
EvEssay == Event("b", "[HIST 281] Essay Draft", "", "", DateOn(2026, 10, 1))
EvUntitled == Event("c", "", "", "", DateOn(2026, 12, 2))
EvHomework == Event("d", "Homework 3 [CS_124_120258_248828]", "", "", DateOn(2026, 11, 3))
EvHomeworkLoc == Event("e", "Homework 3", "math_231_120258_248828", "",
                       DateTimeOn(2026, 11, 20, 8, 0, 0, ""))
EvReading == Event("f", "Reading (Intro 120258) [phil_101_120258_1]", "", "",
                   DateOn(2027, 1, 15))
EvHomeworkPlain == Event("g", "Homework 3", "", "", DateOn(2026, 12, 5))
EvTagOnly == Event("h", " [cs_124_120258_248828]", "", "", DateOn(2026, 12, 6))
EvUndated == Event("i", "Lab 1 [cs_124_120258_248828]", "", "", NoDate)

Catalog == <<EvQuiz, EvEssay, EvUntitled, EvHomework, EvHomeworkLoc, EvReading,
             EvHomeworkPlain, EvTagOnly, EvUndated>>

MaxFeed == 3     \* events in the feed

\* the events picked by the index set I, in their order
RECURSIVE PickEvents(_, _, _)
PickEvents(events, I, k) ==
    IF k > Len(events) THEN <<>>
    ELSE (IF k \in I THEN <<events[k]>> ELSE <<>>) \o PickEvents(events, I, k + 1)

Feeds == {PickEvents(Catalog, I, 1) : I \in {J \in SUBSET (1..Len(Catalog)) : Cardinality(J) <= MaxFeed}}

(***************************************************************************)
(* api/sync.py: fetch_canvas_assignments, the loop body for one VEVENT.    *)
(***************************************************************************)
\* lines 102-105: the calendar day of dtstart
assignment_date(dt) == [y |-> dt.y, m |-> dt.m, d |-> dt.d]

\* lines 77-78, 98-99, 107-108: the event yields a record
keeps_event(ev) ==
    /\ ev.summary # ""
    /\ ev.dtstart.kind # "none"
    /\ ~DateLess(assignment_date(ev.dtstart), assignment_date(Now))

\* lines 116-122
assignment_of(ev) ==
    [name |-> clean_name(ev.summary),
     course_code |-> extract_course_code(ev.summary, ev.location),
     due_date |-> date_only(isoformat(ev.dtstart)),
     canvas_url |-> extract_canvas_url(ev.description),
     uid |-> ev.uid]

RECURSIVE fetch_canvas_assignments(_)
fetch_canvas_assignments(events) ==
    IF events = <<>> THEN <<>>
    ELSE (IF keeps_event(Head(events)) THEN <<assignment_of(Head(events))>> ELSE <<>>)
         \o fetch_canvas_assignments(Tail(events))

(***************************************************************************)
(* The destination database: a set of pages, each a list of title          *)
(* segments (the "title" rich-text array, by plain_text).                  *)
(***************************************************************************)
\* api/sync.py lines 138-145
existing_names(pages) == {str_strip(page[1]) : page \in {q \in pages : q # <<>>}}

InitialStores == {{}, {<<"Homework 3">>}, {<<>>, <<" Quiz 2 ", "draft">>}}

\* the duplicate check looks the course code up among the titles
OutcomeWrongKey(assignment, existing) ==
    IF assignment.course_code \in existing THEN "duplicate"
    ELSE IF assignment.course_code = None \/ assignment.course_code = ""
            \/ assignment.course_code \notin DOMAIN COURSE_MAPPING THEN "unmapped"
    ELSE IF COURSE_MAPPING[assignment.course_code] = None THEN "excluded"
    ELSE "create"

\* lines 229-243: what the loop does with one record
Outcome(assignment, existing) ==
    IF assignment.name \in existing THEN "duplicate"
    ELSE IF assignment.course_code = None \/ assignment.course_code = ""
            \/ assignment.course_code \notin DOMAIN COURSE_MAPPING THEN "unmapped"
    ELSE IF COURSE_MAPPING[assignment.course_code] = None THEN "excluded"
    ELSE "create"

\* lines 158-202: the creation request for one record
creation_request(i, assignment, project_id) ==
    [index |-> i,
     title |-> assignment.name,
     status |-> "Not started",
     project |-> project_id,
     due_date |-> IF assignment.due_date # "" THEN assignment.due_date ELSE None,
     link |-> assignment.canvas_url]

(***************************************************************************)
(* State of the serverless function (api/sync.py) and of its environment.  *)
(***************************************************************************)
VARIABLES
    cfg,            \* CANVAS_ICS_URL / NOTION_API_TOKEN are set (non-empty)
    feed,           \* the VEVENTs the feed URL serves
    notion,         \* pages of the Tasks database
    pc,             \* position of sync_assignments: idle, fetch, query, loop, done
    assignments,    \* list built by fetch_canvas_assignments
    existing_tasks, \* set returned by get_existing_tasks
    created, skipped, errors,
    idx,            \* position of the for loop in assignments
    result, status, \* what sync_assignments returned
    requests,       \* creation requests sent in this run, in order
    log,            \* per processed record: its index and what happened to it
    calls,          \* feed fetches and database queries sent in this run
    threw,          \* what raised in this run, "none" when nothing did
    made,           \* titles this run created in the database
    earlier         \* titles that earlier runs created in the database

VARIABLES
    s_feed,         \* the VEVENTs served to canvas_to_notion_sync.py
    s_pc,           \* canvas_to_notion_sync.py: off, ready, done, failed
    s_assignments,  \* list built by parse_assignments
    sync_file,      \* canvas_sync_data.json: <<>> while it does not exist, else <<data>>
    s_out           \* what sync_to_notion.py did last: nothing yet, exit 1, or the pages

VARIABLE probe      \* one application of a pure function: input and results

scriptVars == <<s_feed, s_pc, s_assignments, sync_file, s_out>>

apiVars == <<cfg, feed, notion, pc, assignments, existing_tasks, created, skipped,
             errors, idx, result, status, requests, log, calls, threw, made, earlier>>

NoResult == [pending |-> TRUE]

InitApi ==
    /\ cfg \in [url : BOOLEAN, token : BOOLEAN]
    /\ feed \in Feeds
    /\ notion \in InitialStores
    /\ pc = "idle"
    /\ assignments = <<>>
    /\ existing_tasks = {}
    /\ created = 0
    /\ skipped = 0
    /\ errors = <<>>
    /\ idx = 0
    /\ result = NoResult
    /\ status = 0
    /\ requests = <<>>
    /\ log = <<>>
    /\ calls = [fetch |-> 0, query |-> 0]
    /\ threw = "none"
    /\ made = {}
    /\ earlier = {}

\* lines 261-262: except Exception as e: return {"error": str(e)}, 500
Raise(why) ==
    /\ threw' = why
    /\ result' = [error |-> why]
    /\ status' = 500
    /\ pc' = "done"

\* handler.do_GET / do_POST call sync_assignments; lines 210-214
Request ==
    /\ pc \in {"idle", "done"}
    /\ assignments' = <<>>
    /\ existing_tasks' = {}
    /\ created' = 0
    /\ skipped' = 0
    /\ errors' = <<>>
    /\ idx' = 0
    /\ requests' = <<>>
    /\ log' = <<>>
    /\ calls' = [fetch |-> 0, query |-> 0]
    /\ threw' = "none"
    /\ made' = {}
    /\ earlier' = earlier \cup made
    /\ IF ~cfg.url
       THEN /\ result' = [error |-> "CANVAS_ICS_URL not configured"]
            /\ status' = 500
            /\ pc' = "done"
       ELSE IF ~cfg.token
       THEN /\ result' = [error |-> "NOTION_API_TOKEN not configured"]
            /\ status' = 500
            /\ pc' = "done"
       ELSE /\ result' = NoResult
            /\ status' = 0
            /\ pc' = "fetch"
    /\ UNCHANGED <<scriptVars, probe, cfg, feed, notion>>

\* lines 62-124 and 218: the feed is fetched and parsed
FetchOk ==
    /\ pc = "fetch"
    /\ calls' = [calls EXCEPT !.fetch = @ + 1]
    /\ assignments' = fetch_canvas_assignments(feed)
    /\ pc' = "query"
    /\ UNCHANGED <<scriptVars, probe, cfg, feed, notion, existing_tasks, created, skipped, errors, idx,
                   result, status, requests, log, threw, made, earlier>>

\* a failed fetch read as an empty feed
FetchRaisesSwallowed ==
    /\ pc = "fetch"
    /\ calls' = [calls EXCEPT !.fetch = @ + 1]
    /\ \E why \in {"feed transport failure", "feed http status", "feed unparsable"} :
          threw' = why
    /\ assignments' = <<>>
    /\ pc' = "query"
    /\ UNCHANGED <<scriptVars, probe, cfg, feed, notion, existing_tasks, created, skipped, errors, idx,
                   result, status, requests, log, made, earlier>>

\* lines 62-64: requests.get raises, raise_for_status raises, from_ical raises
FetchRaises ==
    /\ pc = "fetch"
    /\ calls' = [calls EXCEPT !.fetch = @ + 1]
    /\ \E why \in {"feed transport failure", "feed http status", "feed unparsable"} :
          Raise(why)
    /\ UNCHANGED <<scriptVars, probe, cfg, feed, notion, assignments, existing_tasks, created, skipped,
                   errors, idx, requests, log, made, earlier>>

\* lines 136-145 and 221-226: the query answers 200
QueryOk ==
    /\ pc = "query"
    /\ calls' = [calls EXCEPT !.query = @ + 1]
    /\ existing_tasks' = existing_names(notion)
    /\ idx' = 1
    /\ pc' = "loop"
    /\ UNCHANGED <<scriptVars, probe, cfg, feed, notion, assignments, created, skipped, errors,
                   result, status, requests, log, threw, made, earlier>>

\* lines 137 and 146: any other status reads as "no tasks yet"
QueryNon200 ==
    /\ pc = "query"
    /\ calls' = [calls EXCEPT !.query = @ + 1]
    /\ existing_tasks' = {}
    /\ idx' = 1
    /\ pc' = "loop"
    /\ UNCHANGED <<scriptVars, probe, cfg, feed, notion, assignments, created, skipped, errors,
                   result, status, requests, log, threw, made, earlier>>

\* line 136: requests.post raises
QueryRaises ==
    /\ pc = "query"
    /\ calls' = [calls EXCEPT !.query = @ + 1]
    /\ Raise("query transport failure")
    /\ UNCHANGED <<scriptVars, probe, cfg, feed, notion, assignments, existing_tasks, created, skipped,
                   errors, idx, requests, log, made, earlier>>

InLoop == pc = "loop" /\ idx <= Len(assignments)
Current == assignments[idx]
CurrentOutcome == Outcome(Current, existing_tasks)
CurrentRequest == creation_request(idx, Current, COURSE_MAPPING[Current.course_code])

\* a skip that forgets its count
SkipRecordUncounted ==
    /\ pc = "loop" /\ idx <= Len(assignments)
    /\ Outcome(assignments[idx], existing_tasks) # "create"
    /\ log' = Append(log, [index |-> idx,
                           what |-> Outcome(assignments[idx], existing_tasks)])
    /\ idx' = idx + 1
    /\ UNCHANGED <<scriptVars, probe, cfg, feed, notion, pc, assignments, existing_tasks, created, skipped,
                   errors, result, status, requests, calls, threw, made, earlier>>

\* lines 229-243: the three skips
SkipRecord ==
    /\ InLoop
    /\ CurrentOutcome # "create"
    /\ skipped' = skipped + 1
    /\ log' = Append(log, [index |-> idx, what |-> CurrentOutcome])
    /\ idx' = idx + 1
    /\ UNCHANGED <<scriptVars, probe, cfg, feed, notion, pc, assignments, existing_tasks, created, errors,
                   result, status, requests, calls, threw, made, earlier>>

\* lines 246-248 with 204-205: the page is created
CreateOk ==
    /\ InLoop
    /\ CurrentOutcome = "create"
    /\ requests' = Append(requests, CurrentRequest)
    /\ notion' = notion \cup {<<Current.name>>}
    /\ made' = made \cup {Current.name}
    /\ created' = created + 1
    /\ log' = Append(log, [index |-> idx, what |-> "created"])
    /\ idx' = idx + 1
    /\ UNCHANGED <<scriptVars, probe, cfg, feed, pc, assignments, existing_tasks, skipped, errors,
                   result, status, calls, threw, earlier>>

\* lines 249-250 with 205: the destination answers another status
CreateNon200 ==
    /\ InLoop
    /\ CurrentOutcome = "create"
    /\ requests' = Append(requests, CurrentRequest)
    /\ errors' = Append(errors, Current.name)
    /\ log' = Append(log, [index |-> idx, what |-> "error"])
    /\ idx' = idx + 1
    /\ UNCHANGED <<scriptVars, probe, cfg, feed, notion, pc, assignments, existing_tasks, created, skipped,
                   result, status, calls, threw, made, earlier>>

\* line 204: requests.post raises; nothing catches it before line 261
CreateRaises ==
    /\ InLoop
    /\ CurrentOutcome = "create"
    /\ requests' = Append(requests, CurrentRequest)
    /\ log' = Append(log, [index |-> idx, what |-> "raised"])
    /\ Raise("create transport failure")
    /\ UNCHANGED <<scriptVars, probe, cfg, feed, notion, assignments, existing_tasks, created, skipped,
                   errors, idx, calls, made, earlier>>

\* lines 252-259
summary_result ==
    [success |-> TRUE,
     total_assignments |-> Len(assignments),
     created |-> created,
     skipped |-> skipped,
     errors |-> errors,
     timestamp |-> isoformat(Now)]

Finish ==
    /\ pc = "loop"
    /\ idx > Len(assignments)
    /\ result' = summary_result
    /\ status' = 200
    /\ pc' = "done"
    /\ UNCHANGED <<scriptVars, probe, cfg, feed, notion, assignments, existing_tasks, created, skipped,
                   errors, idx, requests, log, calls, threw, made, earlier>>

NextApi ==
    \/ Request
    \/ FetchOk \/ FetchRaises
    \/ QueryOk \/ QueryNon200 \/ QueryRaises
    \/ SkipRecord \/ CreateOk \/ CreateNon200 \/ CreateRaises
    \/ Finish

vars == <<apiVars, scriptVars, probe>>

ApiOff ==
    /\ cfg = [url |-> FALSE, token |-> FALSE]
    /\ feed = <<>>
    /\ notion = {}
    /\ pc = "off"
    /\ assignments = <<>>
    /\ existing_tasks = {}
    /\ created = 0
    /\ skipped = 0
    /\ errors = <<>>
    /\ idx = 0
    /\ result = NoResult
    /\ status = 0
    /\ requests = <<>>
    /\ log = <<>>
    /\ calls = [fetch |-> 0, query |-> 0]
    /\ threw = "none"
    /\ made = {}
    /\ earlier = {}

(***************************************************************************)
(* The two command-line scripts: canvas_to_notion_sync.py writes           *)
(* canvas_sync_data.json, sync_to_notion.py reads it.                      *)
(***************************************************************************)
KeyOrder == <<"HIST 281", "CS 124", "MATH 231", "ENG 100", "ENG 111", "TE 200",
              "PHYS 100", "CS 199", "CS 100", "CITL">>

\* canvas_to_notion_sync.py lines 17-28: the same page ids, as URLs
SCRIPT_COURSE_MAPPING ==
    [k \in DOMAIN COURSE_MAPPING |->
        IF COURSE_MAPPING[k] = None THEN None
        ELSE "https://www.notion.so/" \o COURSE_MAPPING[k]]

\* s.replace(' ', '')
RECURSIVE remove_spaces(_)
remove_spaces(s) ==
    IF s = "" THEN ""
    ELSE (IF Head(s) = " " THEN "" ELSE Head(s)) \o remove_spaces(Tail(s))

\* the lookup without its second pass
find_notion_project_url_exact(course_code) ==
    IF course_code = None \/ course_code = "" THEN None
    ELSE IF course_code \in DOMAIN SCRIPT_COURSE_MAPPING
    THEN SCRIPT_COURSE_MAPPING[course_code]
    ELSE None

\* canvas_to_notion_sync.py lines 154-168
find_notion_project_url(course_code) ==
    LET hits == {i \in 1..Len(KeyOrder) :
                    remove_spaces(KeyOrder[i]) = remove_spaces(course_code)}
    IN  IF course_code = None \/ course_code = "" THEN None
        ELSE IF course_code \in DOMAIN SCRIPT_COURSE_MAPPING
        THEN SCRIPT_COURSE_MAPPING[course_code]
        ELSE IF hits # {}
        THEN SCRIPT_COURSE_MAPPING[KeyOrder[CHOOSE i \in hits : \A j \in hits : i <= j]]
        ELSE None

\* canvas_to_notion_sync.py lines 122-149: one record; an event without dtstart
\* keeps a null due date
script_assignment_of(ev) ==
    LET due_date_str == IF ev.dtstart.kind = "none" THEN None ELSE isoformat(ev.dtstart)
    IN  [name |-> cli_clean_name(ev.summary),
         course_code |-> cli_extract_course_code(ev.summary, ev.location),
         due_date |-> due_date_str,
         is_datetime |-> (due_date_str # None /\ "T" \in CharsOf(due_date_str)),
         canvas_url |-> extract_canvas_url(ev.description),
         uid |-> ev.uid,
         raw_summary |-> ev.summary]

\* canvas_to_notion_sync.py lines 90-151
RECURSIVE parse_assignments(_)
parse_assignments(events) ==
    IF events = <<>> THEN <<>>
    ELSE (IF Head(events).summary # "" THEN <<script_assignment_of(Head(events))>>
          ELSE <<>>)
         \o parse_assignments(Tail(events))

\* lines 198-205
task_data_of(a) ==
    [assignment_name |-> a.name,
     course_code |-> a.course_code,
     due_date |-> a.due_date,
     is_datetime |-> a.is_datetime,
     notion_project_url |-> find_notion_project_url(a.course_code),
     canvas_url |-> a.canvas_url]

\* lines 190-194
skipped_item_of(a) ==
    [assignment |-> a.name,
     course |-> IF a.course_code = None \/ a.course_code = "" THEN "Unknown"
                ELSE a.course_code,
     reason |-> "No matching Notion project found"]

Resolves(a) == find_notion_project_url(a.course_code) \notin {None, ""}

RECURSIVE tasks_to_create(_)
tasks_to_create(items) ==
    IF items = <<>> THEN <<>>
    ELSE (IF Resolves(Head(items)) THEN <<task_data_of(Head(items))>> ELSE <<>>)
         \o tasks_to_create(Tail(items))

RECURSIVE skipped_items(_)
skipped_items(items) ==
    IF items = <<>> THEN <<>>
    ELSE (IF Resolves(Head(items)) THEN <<>> ELSE <<skipped_item_of(Head(items))>>)
         \o skipped_items(Tail(items))

\* canvas_to_notion_sync.py lines 171-236: what sync_to_notion writes to the file
sync_to_notion(items) ==
    [tasks_to_create |-> tasks_to_create(items),
     skipped |-> skipped_items(items),
     sync_date |-> isoformat(Now)]

\* sync_to_notion.py lines 41-51: the "date:Due Date:start" property, None when absent
due_start(due_date, is_datetime) ==
    IF due_date = None \/ due_date = "" THEN None
    ELSE IF is_datetime /\ "T" \in CharsOf(due_date)
    THEN Slice(due_date, 1, FindCh(due_date, 1, "T") - 1)
    ELSE due_date

\* sync_to_notion.py lines 21-61
generate_notion_task_data(task) ==
    [properties |->
        [Name |-> task.assignment_name,
         Status |-> "Not started",
         Project |-> <<task.notion_project_url>>,
         due_start |-> due_start(task.due_date, task.is_datetime),
         due_is_datetime |-> 0],
     content |-> IF task.canvas_url = None \/ task.canvas_url = "" THEN ""
                 ELSE "[View in Canvas](" \o task.canvas_url \o ")"]

ScriptEvents ==
    <<Event("s1", "[CS124] Lab 4", "", "", DateTimeOn(2026, 11, 9, 17, 0, 0, "-06:00")),
      Event("s2", "(MATH  231 Calculus II) Problem Set 7", "", "",
            DateTimeOn(2026, 10, 2, 23, 59, 59, "")),
      Event("s3", "HIST281: Essay Draft", "", "", DateOn(2026, 10, 1)),
      Event("s4", "PHIL 101 - Reading", "", "", DateOn(2026, 12, 1)),
      Event("s5", "Quiz 2 [cs_124_120258_248828]", "",
            "https://canvas.illinois.edu/courses/1/assignments/2",
            DateTimeOn(2026, 12, 1, 23, 59, 0, "+00:00")),
      Event("s6", "Workshop (CITL)", "", "", NoDate),
      Event("s7", "", "math_231_120258_248828", "", DateOn(2026, 12, 2)),
      Event("s8", "Lab report", "te_200_120258_248828", "", NoDate)>>

ScriptFeeds ==
    {PickEvents(ScriptEvents, I, 1) :
        I \in {J \in SUBSET (1..Len(ScriptEvents)) : Cardinality(J) <= MaxFeed}}

ScriptOff ==
    /\ s_feed = <<>>
    /\ s_pc = "off"
    /\ s_assignments = <<>>
    /\ sync_file = <<>>
    /\ s_out = [kind |-> "none"]

InitScript ==
    /\ s_feed \in ScriptFeeds
    /\ s_pc = "ready"
    /\ s_assignments = <<>>
    /\ sync_file = <<>>
    /\ s_out = [kind |-> "none"]

\* canvas_to_notion_sync.py main(), lines 239-252
RunSync ==
    /\ s_pc \in {"ready", "done", "failed"}
    /\ s_assignments' = parse_assignments(s_feed)
    /\ sync_file' = <<sync_to_notion(parse_assignments(s_feed))>>
    /\ s_pc' = "done"
    /\ UNCHANGED <<apiVars, probe, s_feed, s_out>>

\* lines 37-39 and 254-256: the fetch raises, main re-raises, nothing is written
RunSyncRaises ==
    /\ s_pc \in {"ready", "done", "failed"}
    /\ s_pc' = "failed"
    /\ UNCHANGED <<apiVars, probe, s_feed, s_assignments, sync_file, s_out>>

RECURSIVE notion_tasks(_)
notion_tasks(tasks) ==
    IF tasks = <<>> THEN <<>>
    ELSE <<generate_notion_task_data(Head(tasks))>> \o notion_tasks(Tail(tasks))

\* sync_to_notion.py main(), lines 92-124, with load_sync_data, lines 11-18
RunGenerate ==
    /\ s_pc \in {"ready", "done", "failed"}
    /\ s_out' = IF sync_file = <<>> THEN [kind |-> "exit", code |-> 1]
                ELSE [kind |-> "pages", pages |-> notion_tasks(sync_file[1].tasks_to_create)]
    /\ UNCHANGED <<apiVars, probe, s_feed, s_pc, s_assignments, sync_file>>

NextScript == RunSync \/ RunSyncRaises \/ RunGenerate


(***************************************************************************)
(* The pure functions applied to inputs of their own.                      *)
(***************************************************************************)
MaxProbeLen == 3     \* length of a due-date string made of arbitrary characters
MaxTokens == 2       \* pieces a probed event title is made of

DueAlphabet == {"2", "-", "T", ":"}

RECURSIVE StringsUpTo(_)
StringsUpTo(n) ==
    IF n = 0 THEN {""}
    ELSE LET S == StringsUpTo(n - 1) IN S \cup {s \o c : s \in S, c \in DueAlphabet}

IsoSamples ==
    {isoformat(Catalog[i].dtstart) : i \in {j \in 1..Len(Catalog) : Catalog[j].dtstart.kind # "none"}}
    \cup {isoformat(ScriptEvents[i].dtstart) :
            i \in {j \in 1..Len(ScriptEvents) : ScriptEvents[j].dtstart.kind # "none"}}

DueInputs == StringsUpTo(MaxProbeLen) \cup IsoSamples

\* pieces of a title, with the course code a reader sees in each
Token(text, kind, code) == [text |-> text, kind |-> kind, code |-> code]
Tokens ==
    <<Token("[cs_124_120258_248828]", "tag", "CS 124"),
      Token("[Math_231_120258_1]", "tag", "MATH 231"),
      Token("[HIST 281]", "bracket", "HIST 281"),
      Token("(ENG100A)", "bracket", "ENG100A"),
      Token("(PHYS 100 Mechanics)", "name", "PHYS 100"),
      Token("TE 200: ", "prefix", "TE 200"),
      Token("Quiz 2 ", "plain", None),
      Token("(extra credit) ", "plain", None)>>

Places ==
    <<[text |-> "", code |-> None],
      [text |-> "math_231_120258_248828", code |-> "MATH 231"],
      [text |-> "ECE_110", code |-> "ECE 110"],
      [text |-> "Siebel 1404", code |-> None]>>

TokenLists == UNION {[1..n -> 1..Len(Tokens)] : n \in 0..MaxTokens}

RECURSIVE Joined(_, _)
Joined(ts, k) == IF k > Len(ts) THEN "" ELSE Tokens[ts[k]].text \o Joined(ts, k + 1)

ProbeCodes ==
    {subject \o gap \o number :
        subject \in {"CS", "HIST", "CITL", "cs"},
        gap \in {"", " ", "  ", "\t"},
        number \in {"124", "281", ""}} \cup {None}

ProbeOff == probe = [kind |-> "off"]

InitProbe ==
    \/ \E s \in DueInputs :
          probe = [kind |-> "due", s |-> s, done |-> FALSE, once |-> "", twice |-> ""]
    \/ \E ts \in TokenLists, place \in 1..Len(Places) :
          probe = [kind |-> "extract", tokens |-> ts, place |-> place, done |-> FALSE,
                   api |-> None, script |-> None]
    \/ \E c \in ProbeCodes :
          probe = [kind |-> "resolve", code |-> c, done |-> FALSE, url |-> None]

\* api/sync.py line 119, applied once and applied to its own result
NormalizeDue ==
    /\ probe.kind = "due" /\ ~probe.done
    /\ probe' = [probe EXCEPT !.done = TRUE,
                              !.once = date_only(probe.s),
                              !.twice = date_only(date_only(probe.s))]
    /\ UNCHANGED <<apiVars, scriptVars>>

\* extract_course_code of api/sync.py and of canvas_to_notion_sync.py
ExtractCode ==
    /\ probe.kind = "extract" /\ ~probe.done
    /\ probe' = [probe EXCEPT
            !.done = TRUE,
            !.api = extract_course_code(Joined(probe.tokens, 1), Places[probe.place].text),
            !.script = cli_extract_course_code(Joined(probe.tokens, 1),
                                               Places[probe.place].text)]
    /\ UNCHANGED <<apiVars, scriptVars>>

\* find_notion_project_url
ResolveCode ==
    /\ probe.kind = "resolve" /\ ~probe.done
    /\ probe' = [probe EXCEPT !.done = TRUE, !.url = find_notion_project_url(probe.code)]
    /\ UNCHANGED <<apiVars, scriptVars>>

NextProbe == NormalizeDue \/ ExtractCode \/ ResolveCode

(***************************************************************************)
(* Specifications.                                                         *)
(***************************************************************************)
\* the serverless function alone
Init == InitApi /\ ScriptOff /\ ProbeOff
Next == NextApi
Spec == Init /\ [][Next]_vars

\* every variant of the pipeline, and the pure functions
InitVariants ==
    \/ InitApi /\ ScriptOff /\ ProbeOff
    \/ ApiOff /\ InitScript /\ ProbeOff
    \/ ApiOff /\ ScriptOff /\ InitProbe
NextVariants == NextApi \/ NextScript \/ NextProbe
SpecVariants == InitVariants /\ [][NextVariants]_vars


(***************************************************************************)
(* Properties of a run of sync_assignments.                                *)
(***************************************************************************)
LogOf(i) == {k \in 1..Len(log) : log[k].index = i}
RequestsOf(i) == {k \in 1..Len(requests) : requests[k].index = i}
Logged(kinds) == {k \in 1..Len(log) : log[k].what \in kinds}
Skips == {"duplicate", "unmapped", "excluded"}
FeedFailures == {"feed transport failure", "feed http status", "feed unparsable"}
Summarised == pc = "done" /\ status = 200

\* C1: when a run returns the summary, every record of the list has exactly one
\* outcome - skipped with no creation request, or one creation request and counted
\* in created or in errors - and total_assignments = created + skipped + len(errors).
C1_EveryRecordOneOutcome ==
    Summarised =>
        /\ result.total_assignments = Len(assignments)
        /\ result.total_assignments
              = result.created + result.skipped + Len(result.errors)
        /\ result.created = Cardinality(Logged({"created"}))
        /\ result.skipped = Cardinality(Logged(Skips))
        /\ Len(result.errors) = Cardinality(Logged({"error"}))
        /\ \A i \in 1..Len(assignments) :
              /\ Cardinality(LogOf(i)) = 1
              /\ \A k \in LogOf(i) :
                    IF log[k].what \in Skips
                    THEN RequestsOf(i) = {}
                    ELSE /\ log[k].what \in {"created", "error"}
                         /\ Cardinality(RequestsOf(i)) = 1
                         /\ log[k].what = "error" =>
                               \E e \in 1..Len(result.errors) :
                                   result.errors[e] = assignments[i].name

C1_Witness ==
    /\ Summarised
    /\ result.created >= 1
    /\ result.skipped >= 1
    /\ Len(result.errors) >= 1

\* C2: a record whose cleaned name is in the existing-title set gets no creation
\* request and adds one to skipped, whatever its course code (the duplicate check
\* comes first).
C2_DuplicateSkipped ==
    [][(pc = "loop" /\ idx <= Len(assignments)
            /\ assignments[idx].name \in existing_tasks)
        => /\ skipped' = skipped + 1
           /\ requests' = requests
           /\ created' = created
           /\ errors' = errors
           /\ notion' = notion
           /\ log' = Append(log, [index |-> idx, what |-> "duplicate"])
           /\ idx' = idx + 1]_vars

C2_Witness ==
    \E k \in 1..Len(log) :
        /\ log[k].what = "duplicate"
        /\ Outcome(assignments[log[k].index], {}) = "create"
        /\ \E j \in 1..Len(log) :
              /\ log[j].what = "duplicate"
              /\ Outcome(assignments[log[j].index], {}) = "unmapped"

\* C3: a run sends no creation request for a title an earlier run created and the
\* destination still stores, whatever the existing-title query answers.
C3_RerunCreatesNothingAgain ==
    \A k \in 1..Len(requests) : requests[k].title \notin earlier

\* C4: when a creation fails (a non-success status or a transport failure), the
\* name is in errors, the later records are still processed and the run ends with
\* the summary and status 200.
C4_FailedCreationNeverAborts ==
    (pc = "done" /\ Logged({"error", "raised"}) # {}) =>
        /\ status = 200
        /\ Len(log) = Len(assignments)
        /\ \A k \in Logged({"error", "raised"}) :
              \E e \in 1..Len(errors) : errors[e] = assignments[log[k].index].name

\* C5: missing configuration or a failed feed fetch ends the run with an error body
\* and status 500 before any query or creation request is sent (missing
\* configuration: before the feed is fetched too); when nothing throws the result is
\* the summary with status 200.
C5_FatalBeforePublish ==
    /\ calls.query > 0 => calls.fetch > 0 /\ cfg.url /\ cfg.token /\ threw \notin FeedFailures
    /\ requests # <<>> => calls.query > 0
    /\ pc = "done" =>
        /\ (~cfg.url \/ ~cfg.token) =>
              /\ status = 500
              /\ DOMAIN result = {"error"}
              /\ calls = [fetch |-> 0, query |-> 0]
              /\ requests = <<>>
        /\ threw \in FeedFailures =>
              /\ status = 500
              /\ DOMAIN result = {"error"}
              /\ calls.query = 0
              /\ requests = <<>>
        /\ (cfg.url /\ cfg.token /\ threw = "none") =>
              /\ status = 200
              /\ result = summary_result

C5_Witness == pc = "done" /\ threw = "feed http status" /\ notion # {} /\ feed # <<>>

\* C6: a record whose course code maps to the excluded sentinel is skipped and
\* counted as excluded: the summary reports excluded records apart from unmapped ones.
C6_ExcludedCountedApart ==
    (Summarised /\ Logged({"unmapped", "excluded"}) # {}) =>
        /\ {"excluded", "unmapped"} \subseteq DOMAIN result
        /\ result.excluded = Cardinality(Logged({"excluded"}))
        /\ result.unmapped = Cardinality(Logged({"unmapped"}))

\* C8: for the feed (a) "Quiz 2 [cs_124_120258_248828]" due later with a time of day,
\* (b) "[HIST 281] Essay Draft" due earlier on a plain date, (c) an event without
\* summary, run against no existing titles, one task is created ("Quiz 2", CS 124,
\* date-only due date) and the summary reports total 2, created 1, skipped >= 1.
C8_ScenarioTally ==
    (/\ feed = <<EvQuiz, EvEssay, EvUntitled>>
     /\ Summarised
     /\ existing_tasks = {}
     /\ errors = <<>>) =>
        /\ Len(requests) = 1
        /\ requests[1].title = "Quiz 2"
        /\ requests[1].project = COURSE_MAPPING["CS 124"]
        /\ requests[1].due_date = "2026-12-01"
        /\ result.total_assignments = 2
        /\ result.created = 1
        /\ result.skipped >= 1

(***************************************************************************)
(* Properties that span the variants.                                      *)
(***************************************************************************)
Keys == DOMAIN COURSE_MAPPING
SameButSpaces(c, k) == c # None /\ remove_spaces(c) = remove_spaces(k)
Written == sync_file # <<>>
WrittenTasks == sync_file[1].tasks_to_create
WrittenSkips == sync_file[1].skipped

\* C7: a course code equal to a mapping key once spaces are removed resolves to
\* that key's project (an exact match first), and an assignment carrying it is
\* published to that project instead of being skipped as unmapped.
C7_SpaceInsensitiveResolution ==
    /\ (probe.kind = "resolve" /\ probe.done) =>
          /\ \A k \in Keys :
                SameButSpaces(probe.code, k) => probe.url = SCRIPT_COURSE_MAPPING[k]
          /\ probe.code \in Keys => probe.url = SCRIPT_COURSE_MAPPING[probe.code]
    /\ Written =>
          \A i \in 1..Len(s_assignments) : \A k \in Keys :
              (SameButSpaces(s_assignments[i].course_code, k)
                    /\ SCRIPT_COURSE_MAPPING[k] # None) =>
                 /\ \E n \in 1..Len(WrittenTasks) :
                       /\ WrittenTasks[n].assignment_name = s_assignments[i].name
                       /\ WrittenTasks[n].course_code = s_assignments[i].course_code
                       /\ WrittenTasks[n].notion_project_url = SCRIPT_COURSE_MAPPING[k]
                 /\ \A n \in 1..Len(WrittenSkips) :
                       WrittenSkips[n].course # s_assignments[i].course_code
    /\ \A n \in 1..Len(log) : \A k \in Keys :
          (SameButSpaces(assignments[log[n].index].course_code, k)
                /\ COURSE_MAPPING[k] # None) =>
             /\ log[n].what # "unmapped"
             /\ \A r \in RequestsOf(log[n].index) : requests[r].project = COURSE_MAPPING[k]

C7_Witness ==
    /\ Written
    /\ \E n \in 1..Len(WrittenTasks) :
          /\ WrittenTasks[n].course_code \notin Keys
          /\ WrittenTasks[n].notion_project_url = SCRIPT_COURSE_MAPPING["CS 124"]

HasTime(s) == "T" \in CharsOf(s)
IsPrefixOf(p, s) == Len(p) <= Len(s) /\ Slice(s, 1, Len(p)) = p

\* C9: a due date with a time of day ('T') becomes its date-only prefix, a date-only
\* value is unchanged, normalising twice equals normalising once, and every due date
\* carried by a published task (creation request, generated task data) is date-only.
C9_DueDateOnly ==
    /\ (probe.kind = "due" /\ probe.done) =>
          /\ HasTime(probe.s) =>
                /\ IsPrefixOf(probe.once \o "T", probe.s)
                /\ ~HasTime(probe.once)
          /\ ~HasTime(probe.s) => probe.once = probe.s
          /\ probe.twice = probe.once
    /\ \A r \in 1..Len(requests) :
          /\ ~HasTime(requests[r].due_date)
          /\ \E i \in 1..Len(feed) :
                /\ feed[i].uid = assignments[requests[r].index].uid
                /\ requests[r].due_date = isoformat(
                       [feed[i].dtstart EXCEPT !.kind = "date"])
    /\ s_out.kind = "pages" =>
          \A n \in 1..Len(s_out.pages) : ~HasTime(s_out.pages[n].properties.due_start)

C9_Witness ==
    /\ s_out.kind = "pages"
    /\ \E n \in 1..Len(s_out.pages) :
          /\ WrittenTasks[n].is_datetime
          /\ s_out.pages[n].properties.due_start = "2026-11-09"

TagTokens(ts) == {n \in 1..Len(ts) : Tokens[ts[n]].kind = "tag"}
FirstTagCode(ts) ==
    Tokens[ts[CHOOSE n \in TagTokens(ts) : \A m \in TagTokens(ts) : n <= m]].code
HumanWritten(ts) ==
    \/ \E n \in 1..Len(ts) : Tokens[ts[n]].kind \in {"bracket", "name"}
    \/ ts # <<>> /\ Tokens[ts[1]].kind = "prefix"

\* what the documented cascade requires of one result
CascadeHolds(ts, place, out) ==
    /\ TagTokens(ts) # {} => out = FirstTagCode(ts)
    /\ (TagTokens(ts) = {} /\ Places[place].code # None) => out = Places[place].code
    /\ out = None =>
          /\ TagTokens(ts) = {}
          /\ Places[place].code = None
          /\ ~HumanWritten(ts)

\* C10: a machine tag [subject_number_...] in the title gives "<SUBJECT> <NUMBER>"
\* (subject upper-cased) whatever its case, before the location field and before any
\* human-written code; the location comes before the human-written codes; the result
\* is null only when no pattern of the cascade matches - for both extract_course_code.
C10_CascadeFirstMatchWins ==
    (probe.kind = "extract" /\ probe.done) =>
        /\ CascadeHolds(probe.tokens, probe.place, probe.script)
        /\ CascadeHolds(probe.tokens, probe.place, probe.api)

\* the cascade of canvas_to_notion_sync.py alone
ScriptCascadeFirstMatchWins ==
    (probe.kind = "extract" /\ probe.done) =>
        CascadeHolds(probe.tokens, probe.place, probe.script)

\* C11: within one run of sync_assignments no two creation requests carry the same
\* title: of the records of the list that share a cleaned name, at most one leads
\* to a creation request.
C11_NoTwoRequestsSameTitle ==
    \A j, k \in 1..Len(requests) :
        requests[j].title = requests[k].title => j = k

\* C12: every creation request of sync_assignments carries a non-empty title: a
\* record whose cleaned name is the empty string never reaches create_notion_task.
C12_NoRequestWithEmptyTitle ==
    \A k \in 1..Len(requests) : requests[k].title # ""

====
